---- MODULE Spec2Model ----
(***************************************************************************)
(* A model of billjs' calculateBill (src/src/index.ts).                    *)
(*                                                                         *)
(* Numbers.  The code computes in IEEE doubles and rounds every            *)
(* intermediate amount to config.decimalInternalPrecision decimals.  The   *)
(* model computes in exact arithmetic: an amount is an integer number of   *)
(* 1/Scale currency units (thousandths), every payload sets                *)
(* decimalInternalPrecision <= 3, and a quotient is rounded from its exact *)
(* numerator and denominator.  Math.round rounds half up (towards          *)
(* +infinity); Number.EPSILON is below the model's resolution.             *)
(* A tax rate is an integer number of quarter percent (8.25% = 33), so     *)
(* that rate/100 is rate/RateDen.  An exchange rate is a pair n/d.         *)
(*                                                                         *)
(* Optional fields.  undefined is modelled by a value the code treats the  *)
(* same way: applyOn Undefined, threshold 0 (falsy), taxPreset "" (falsy), *)
(* discount kind "none", currency "" (falsy), enabled/inclusive/compound/  *)
(* taxFree as the boolean the code's test yields.                          *)
(***************************************************************************)
EXTENDS Integers, Sequences, FiniteSets, TLC

\* ---------------------------------------------------------------- bounds
MaxItems == 2
MaxTaxes == 2
MaxCharges == 2
MaxBills == 3

\* ------------------------------------------------------------ arithmetic
RECURSIVE Pow10(_)
Pow10(n) == IF n <= 0 THEN 1 ELSE 10 * Pow10(n - 1)

\* digits after the decimal point carried by the model's integers
ScaleDigits == 1 + 2
Scale == Pow10(ScaleDigits)
\* whole currency units and thousandths
Amt(units) == units * Scale
\* a percentage as quarter percents; RateDen is the 100 of rate/100
Pct(p) == 4 * p
RateDen == 4 * 100

\* Math.round(n/d) for d > 0: floor(n/d + 1/2)
MathRound(n, d) ==
    LET q == n \div d
        r == n % d
    IN  IF 2 * r >= d THEN q + 1 ELSE q

\* roundTo(n/d, decimals): the quotient n/d (in 1/Scale units) rounded to
\* `decimals` decimal places, again in 1/Scale units
roundTo(n, d, decimals) ==
    IF decimals >= ScaleDigits
    THEN MathRound(n, d)
    ELSE LET f == Pow10(ScaleDigits - decimals)
         IN  MathRound(n, d * f) * f

internalRound(n, d, decimalsExtra) == roundTo(n, d, decimalsExtra)

\* Display, were the display rounding tied to config.roundOff
DisplayWhenRoundOff(value, cfg) ==
    IF cfg.roundOff THEN roundTo(value, 1, cfg.decimalPlaces) ELSE value

\* an amount as it is placed in the result: roundTo(value, decimalPlaces)
Display(value, cfg) == roundTo(value, 1, cfg.decimalPlaces)

RECURSIVE SumSeq(_)
SumSeq(s) == IF s = << >> THEN 0 ELSE Head(s) + SumSeq(Tail(s))

SeqsUpTo(S, n) == UNION { [1..k -> S] : k \in 0..n }

\* ----------------------------------------------------------------- types
Undefined == "undefined"

NoDiscount == [kind |-> "none", value |-> 0]
Fixed(v) == [kind |-> "fixed", value |-> v]
Percent(p) == [kind |-> "percentage", value |-> p]

Item(name, qty, unitPrice, discount, taxFree, currency) ==
    [name |-> name, qty |-> qty, unitPrice |-> unitPrice,
     discount |-> discount, taxFree |-> taxFree, currency |-> currency]

Charge(name, kind, value, applyOn) ==
    [name |-> name, kind |-> kind, value |-> value, applyOn |-> applyOn]

Tax(name, rate, inclusive, applyOn, enabled, threshold, compound) ==
    [name |-> name, rate |-> rate, inclusive |-> inclusive,
     applyOn |-> applyOn, enabled |-> enabled, threshold |-> threshold,
     compound |-> compound]

\* the tax presets table
taxPresets ==
    [india |-> << Tax("CGST", Pct(9), TRUE, "netAfterDiscount", TRUE, 0, FALSE),
                  Tax("SGST", Pct(9), TRUE, "netAfterDiscount", TRUE, 0, FALSE) >>,
     usa |-> << Tax("Sales Tax", 33, FALSE, "taxableBase", TRUE, 0, FALSE) >>,
     eu |-> << Tax("VAT", Pct(20), FALSE, "taxableBase", TRUE, 0, FALSE) >>,
     uk |-> << Tax("VAT", Pct(20), FALSE, "taxableBase", TRUE, 0, FALSE) >>,
     canada |-> << Tax("GST", Pct(5), FALSE, "taxableBase", TRUE, 0, FALSE),
                   Tax("PST", Pct(7), FALSE, "taxableBase", TRUE, 0, FALSE) >>,
     australia |-> << Tax("GST", Pct(10), FALSE, "taxableBase", TRUE, 0, FALSE) >>]

\* Names every JavaScript object inherits from Object.prototype:
\* taxPresets[name] is a truthy non-array value for them.
ObjectPrototypeKeys ==
    {"constructor", "toString", "valueOf", "hasOwnProperty", "__proto__"}

\* taxPresets[name] as the property lookup evaluates it
PresetLookup(name) ==
    IF name \in DOMAIN taxPresets THEN "array"
    ELSE IF name \in ObjectPrototypeKeys THEN "inherited"
    ELSE Undefined

\* the defaults of calculateBill merged with payload.config
Config(decimalPlaces, roundOff, globalDiscount, taxPreset, exchangeRates) ==
    [decimalPlaces |-> decimalPlaces, roundOff |-> roundOff,
     globalDiscount |-> globalDiscount, decimalInternalPrecision |-> ScaleDigits,
     currency |-> "USD", exchangeRates |-> exchangeRates,
     taxPreset |-> taxPreset]

\* config.exchangeRates: the entries of the object, each rate the quotient n/d
NoRates == << >>
Rate(code, n, d) == [code |-> code, n |-> n, d |-> d]

\* config.exchangeRates?.[currency]: the entry, or << >> when there is none
RateOf(exchangeRates, currency) ==
    LET hits == { i \in 1..Len(exchangeRates) : exchangeRates[i].code = currency }
    IN  IF hits = {} THEN << >>
        ELSE << exchangeRates[CHOOSE i \in hits : \A j \in hits : j <= i] >>

Payload(items, charges, taxes, config) ==
    [items |-> items, charges |-> charges, taxes |-> taxes, config |-> config]

\* ------------------------------------------------------------ validation
ChargeApplyOn == {"subtotal", "taxableBase", "netAfterDiscount"}
TaxApplyOn == {"subtotal", "taxableBase", "charges", "netAfterDiscount"}

\* `x.applyOn && !list.includes(x.applyOn)`: undefined and "" are falsy
ApplyOnRejected(applyOn, allowed) ==
    /\ applyOn # Undefined
    /\ applyOn # ""
    /\ applyOn \notin allowed

DiscountRejected(g) ==
    \/ g.kind = "percentage" /\ (g.value < 0 \/ g.value > 100)
    \/ g.kind = "fixed" /\ g.value < 0

\* the field of the first check an item fails, "" when it passes
ItemField(item) ==
    IF item.name = "" THEN "name"
    ELSE IF item.qty < 0 THEN "qty"
    ELSE IF item.unitPrice < 0 THEN "unitPrice"
    ELSE IF item.discount.kind # "none" /\ DiscountRejected(item.discount)
         THEN "discount.value"
    ELSE ""

ChargeField(charge) ==
    IF charge.name = "" THEN "name"
    ELSE IF charge.value < 0 THEN "value"
    ELSE IF ApplyOnRejected(charge.applyOn, ChargeApplyOn) THEN "applyOn"
    ELSE ""

TaxField(tax) ==
    IF tax.name = "" THEN "name"
    ELSE IF tax.rate < 0 THEN "rate"
    ELSE IF ApplyOnRejected(tax.applyOn, TaxApplyOn) THEN "applyOn"
    ELSE ""

ConfigField(config) ==
    IF config.decimalPlaces < 0 \/ config.decimalPlaces > 10
    THEN "decimalPlaces"
    ELSE IF config.decimalInternalPrecision < 0
            \/ config.decimalInternalPrecision > 15
    THEN "decimalInternalPrecision"
    ELSE IF config.globalDiscount.kind # "none"
            /\ DiscountRejected(config.globalDiscount)
    THEN "globalDiscount.value"
    ELSE IF \E i \in 1..Len(config.exchangeRates) :
                config.exchangeRates[i].n <= 0
    THEN "exchangeRates"
    ELSE IF config.taxPreset # "" /\ PresetLookup(config.taxPreset) = Undefined
    THEN "taxPreset"
    ELSE ""

\* the first element of `s` that Field rejects: <<index, field>>, or << >>
FirstRejected(s, Field(_)) ==
    LET bad == { i \in 1..Len(s) : Field(s[i]) # "" }
    IN  IF bad = {} THEN << >>
        ELSE LET i == CHOOSE k \in bad : \A j \in bad : k <= j
             IN  << i - 1, Field(s[i]) >>

\* validatePayload: the field path of the ValidationError it throws, or
\* << >> when it returns
validatePayload(p) ==
    IF Len(p.items) = 0 THEN << "items" >>
    ELSE IF FirstRejected(p.items, ItemField) # << >>
    THEN << "items" >> \o FirstRejected(p.items, ItemField)
    ELSE IF FirstRejected(p.charges, ChargeField) # << >>
    THEN << "charges" >> \o FirstRejected(p.charges, ChargeField)
    ELSE IF FirstRejected(p.taxes, TaxField) # << >>
    THEN << "taxes" >> \o FirstRejected(p.taxes, TaxField)
    ELSE IF ConfigField(p.config) # ""
    THEN << "config", ConfigField(p.config) >>
    ELSE << >>

\* ------------------------------------------------- effective tax rules
\* (payload.taxes || []).filter(t => t.enabled !== false)
RECURSIVE EnabledTaxes(_)
EnabledTaxes(ts) ==
    IF ts = << >> THEN << >>
    ELSE IF Head(ts).enabled THEN << Head(ts) >> \o EnabledTaxes(Tail(ts))
    ELSE EnabledTaxes(Tail(ts))

MergedTaxesPresetFirst(p) ==
    IF p.config.taxPreset = "" THEN EnabledTaxes(p.taxes)
    ELSE EnabledTaxes(taxPresets[p.config.taxPreset]) \o EnabledTaxes(p.taxes)

\* the enabled rules of the payload followed by those of the preset
MergedTaxes(p) ==
    IF p.config.taxPreset = "" THEN EnabledTaxes(p.taxes)
    ELSE EnabledTaxes(p.taxes) \o EnabledTaxes(taxPresets[p.config.taxPreset])

\* -------------------------------------------------- step 1: the items
\* Number.NaN
NaN == "NaN"

\* config.exchangeRates?.[it.currency] finds no rate of the table but a
\* member every object inherits, which is truthy: the unit price divided by
\* it is NaN
UnitPriceIsNaN(it, config) ==
    /\ it.currency # ""
    /\ it.currency # config.currency
    /\ config.exchangeRates # NoRates
    /\ RateOf(config.exchangeRates, it.currency) = << >>
    /\ it.currency \in ObjectPrototypeKeys

\* qty * unitPrice, the unit price divided by the item's exchange rate when
\* the item names another currency that has a rate
BasePrice(it, config) ==
    LET ip == config.decimalInternalPrecision
        rate == RateOf(config.exchangeRates, it.currency)
    IN  IF UnitPriceIsNaN(it, config) THEN NaN
        ELSE IF it.currency # "" /\ it.currency # config.currency /\ rate # << >>
        THEN internalRound(it.qty * it.unitPrice * rate[1].d, rate[1].n, ip)
        ELSE internalRound(it.qty * it.unitPrice, 1, ip)

\* the absolute discount of `g` on `base`, not yet clamped
DiscountAbs(g, base, ip) ==
    IF g.kind = "fixed" THEN g.value
    ELSE internalRound(base * g.value, 100, ip)

ItemDiscountAbs(it, basePrice, ip) ==
    IF it.discount.kind = "none" THEN 0
    ELSE LET d == internalRound(DiscountAbs(it.discount, basePrice, ip), 1, ip)
         IN  IF d > basePrice THEN basePrice ELSE d

\* the tax extracted from a tax-inclusive base
InclusiveTaxOnTop(base, rate, ip) == internalRound(base * rate, RateDen, ip)

InclusiveTax(base, rate, ip) ==
    LET netBase == internalRound(base * RateDen, RateDen + rate, ip)
    IN  internalRound(base - netBase, 1, ip)

\* the tax added on a base
ExclusiveTax(base, rate, ip) == internalRound(base * rate, RateDen, ip)

\* the per-item taxes: one entry per rule that applies on 'taxableBase'
RECURSIVE TaxesApplied(_, _, _)
TaxesApplied(ts, taxableAmount, ip) ==
    IF ts = << >> THEN << >>
    ELSE LET t == Head(ts)
             applyOn == IF t.applyOn = Undefined THEN "taxableBase" ELSE t.applyOn
             rest == TaxesApplied(Tail(ts), taxableAmount, ip)
         IN  IF applyOn # "taxableBase" THEN rest
             ELSE IF taxableAmount <= 0
             THEN << [name |-> t.name, amount |-> 0, formula |-> "exempt"] >> \o rest
             ELSE IF t.inclusive
             THEN << [name |-> t.name,
                      amount |-> InclusiveTax(taxableAmount, t.rate, ip),
                      formula |-> "inclusive"] >> \o rest
             ELSE << [name |-> t.name,
                      amount |-> ExclusiveTax(taxableAmount, t.rate, ip),
                      formula |-> "exclusive"] >> \o rest

\* one iteration of the item loop: the amounts at internal precision
ItemCalc(it, ts, config) ==
    LET ip == config.decimalInternalPrecision
        basePrice == BasePrice(it, config)
        itemDiscountAbs == ItemDiscountAbs(it, basePrice, ip)
        netPrice == internalRound(basePrice - itemDiscountAbs, 1, ip)
        taxableAmount == IF it.taxFree THEN 0 ELSE netPrice
        taxesApplied == TaxesApplied(ts, taxableAmount, ip)
        itemTaxesSum == SumSeq([k \in 1..Len(taxesApplied) |-> taxesApplied[k].amount])
    IN  [basePrice |-> basePrice, itemDiscountAbs |-> itemDiscountAbs,
         netPrice |-> netPrice, taxableAmount |-> taxableAmount,
         taxesApplied |-> taxesApplied,
         itemTotal |-> internalRound(netPrice + itemTaxesSum, 1, ip)]

\* the ItemBreakdown pushed for item i (0-based index, display precision)
ItemBreakdown(i, it, c, cfg) ==
    [index |-> i, name |-> it.name, qty |-> it.qty,
     unitPrice |-> Display(it.unitPrice, cfg),
     basePrice |-> Display(c.basePrice, cfg),
     itemDiscount |-> Display(c.itemDiscountAbs, cfg),
     netPrice |-> Display(c.netPrice, cfg),
     taxableAmount |-> Display(c.taxableAmount, cfg),
     taxesApplied |-> [k \in 1..Len(c.taxesApplied) |->
                          [name |-> c.taxesApplied[k].name,
                           amount |-> Display(c.taxesApplied[k].amount, cfg),
                           formula |-> c.taxesApplied[k].formula]],
     total |-> Display(c.itemTotal, cfg)]

\* ----------------------------------------- step 2: the global discount
GlobalDiscountUnclamped(g, netAfterItemDiscounts, ip) ==
    IF g.kind = "none" THEN 0 ELSE DiscountAbs(g, netAfterItemDiscounts, ip)

GlobalDiscountAbs(g, netAfterItemDiscounts, ip) ==
    IF g.kind = "none" THEN 0
    ELSE LET d == DiscountAbs(g, netAfterItemDiscounts, ip)
         IN  IF d > netAfterItemDiscounts THEN netAfterItemDiscounts ELSE d

\* ------------------------------------------------- step 3: the charges
ChargeBaseGross(applyOn, sub, net) == sub

ChargeBase(applyOn, sub, net) ==
    IF applyOn = "subtotal" THEN sub
    ELSE IF applyOn = "taxableBase" THEN net
    ELSE net

\* the internal amount of a charge
ChargeAmount(ch, sub, net, ip) ==
    LET applyOn == IF ch.applyOn = Undefined THEN "netAfterDiscount" ELSE ch.applyOn
        baseForCharge == ChargeBase(applyOn, sub, net)
    IN  IF ch.kind = "fixed" THEN internalRound(ch.value, 1, ip)
        ELSE internalRound(internalRound(baseForCharge * ch.value, 100, ip), 1, ip)

ChargeBreakdown(ch, sub, net, ip, cfg) ==
    LET applyOn == IF ch.applyOn = Undefined THEN "netAfterDiscount" ELSE ch.applyOn
    IN  [name |-> ch.name, kind |-> ch.kind, value |-> ch.value,
         applyOn |-> applyOn,
         amount |-> Display(ChargeAmount(ch, sub, net, ip), cfg),
         formula |-> IF ch.kind = "fixed" THEN [value |-> ch.value]
                     ELSE [base |-> ChargeBase(applyOn, sub, net),
                           amount |-> ChargeAmount(ch, sub, net, ip)]]

\* --------------------------------------------------- step 4: the taxes
\* the base a rule's applyOn selects
TaxBase(applyOn, sub, net, charges) ==
    IF applyOn = "subtotal" THEN sub
    ELSE IF applyOn = "taxableBase" THEN net
    ELSE IF applyOn = "charges" THEN charges
    ELSE net + charges

\* EffectiveBase, were the compound flag ignored
EffectiveBaseFlat(t, base, totalTaxSoFar) == base

\* the base plus, for a compound rule, the tax applied so far
EffectiveBase(t, base, totalTaxSoFar) ==
    IF t.compound THEN base + totalTaxSoFar ELSE base

\* BelowThreshold, were the comparison <=
BelowThresholdOrAt(t, effectiveBase) ==
    t.threshold # 0 /\ effectiveBase <= t.threshold

\* `t.threshold && effectiveBase < t.threshold`
BelowThreshold(t, effectiveBase) ==
    t.threshold # 0 /\ effectiveBase < t.threshold

NoTaxes ==
    [taxBreakdowns |-> << >>, totalExclusiveTaxes |-> 0,
     totalInclusiveTaxes |-> 0, totalTaxSoFar |-> 0]

\* Accumulate, were every tax amount added to the total
AccumulateAll(acc, inclusive, taxAmount) ==
    [taxBreakdowns |-> acc.taxBreakdowns,
     totalExclusiveTaxes |-> acc.totalExclusiveTaxes + taxAmount,
     totalInclusiveTaxes |-> acc.totalInclusiveTaxes,
     totalTaxSoFar |-> acc.totalTaxSoFar + taxAmount]

\* the running sums after a rule that was applied with amount taxAmount
Accumulate(acc, inclusive, taxAmount) ==
    [taxBreakdowns |-> acc.taxBreakdowns,
     totalExclusiveTaxes |->
         IF inclusive THEN acc.totalExclusiveTaxes
         ELSE acc.totalExclusiveTaxes + taxAmount,
     totalInclusiveTaxes |->
         IF inclusive THEN acc.totalInclusiveTaxes + taxAmount
         ELSE acc.totalInclusiveTaxes,
     totalTaxSoFar |-> acc.totalTaxSoFar + taxAmount]

\* one iteration of the tax loop on the accumulators `acc`.  The formula of
\* an entry is the text of the code with its two numbers: the effective
\* base and the tax amount at internal precision.
TaxStep(acc, t, sub, net, charges, ip, cfg) ==
    LET applyOn == IF t.applyOn = Undefined THEN "taxableBase" ELSE t.applyOn
        base == TaxBase(applyOn, sub, net, charges)
        effectiveBase == EffectiveBase(t, base, acc.totalTaxSoFar)
        taxAmount == IF t.inclusive
                     THEN InclusiveTax(effectiveBase, t.rate, ip)
                     ELSE ExclusiveTax(effectiveBase, t.rate, ip)
        entry(amount, text, internal) ==
            [name |-> t.name, rate |-> t.rate, inclusive |-> t.inclusive,
             applyOn |-> applyOn, amount |-> amount,
             formula |-> [text |-> text, compound |-> t.compound,
                          effectiveBase |-> effectiveBase,
                          taxAmount |-> internal]]
    IN  IF BelowThreshold(t, effectiveBase)
        THEN [acc EXCEPT !.taxBreakdowns =
                  Append(@, entry(0, "Below threshold", 0))]
        ELSE [Accumulate(acc, t.inclusive, taxAmount)
                  EXCEPT !.taxBreakdowns =
                      Append(@, entry(Display(taxAmount, cfg),
                                      IF t.inclusive THEN "Inclusive" ELSE "Exclusive",
                                      taxAmount))]

\* the tax loop over the rules `ts`, in list order
RECURSIVE TaxLoop(_, _, _, _, _, _, _)
TaxLoop(acc, ts, sub, net, charges, ip, cfg) ==
    IF ts = << >> THEN acc
    ELSE TaxLoop(TaxStep(acc, Head(ts), sub, net, charges, ip, cfg),
                 Tail(ts), sub, net, charges, ip, cfg)

\* --------------------------------------------- step 5: the final total
BeforeRoundTotal(net, charges, exclusiveTaxes, ip) ==
    internalRound(net + charges + exclusiveTaxes, 1, ip)

\* the total and the rounding difference: <<finalTotal, roundDiff>>
RoundOff(beforeRoundTotal, config) ==
    IF config.roundOff
    THEN LET rounded == roundTo(beforeRoundTotal, 1, config.decimalPlaces)
         IN  << rounded,
                internalRound(rounded - beforeRoundTotal, 1,
                              config.decimalInternalPrecision) >>
    ELSE << roundTo(beforeRoundTotal, 1, config.decimalPlaces), 0 >>

\* convertedTotals[curr] = roundTo(finalTotal * rate, decimalPlaces)
ConvertedTotals(finalTotal, config) ==
    [k \in 1..Len(config.exchangeRates) |->
        [code |-> config.exchangeRates[k].code,
         amount |-> roundTo(finalTotal * config.exchangeRates[k].n,
                            config.exchangeRates[k].d, config.decimalPlaces)]]

\* ------------------------------------------------------------- payloads
USD == "USD"

ItemPool ==
    { Item("Item1", 1, Amt(100), NoDiscount, FALSE, ""),
      Item("Item2", 1, Amt(50) + 4, Percent(10), FALSE, ""),
      Item("Item3", 3, Amt(3) + 335, NoDiscount, FALSE, USD) }

TaxPool ==
    { Tax("Tax1", Pct(10), FALSE, Undefined, TRUE, 0, FALSE),
      Tax("Tax2", Pct(5), FALSE, Undefined, TRUE, 0, TRUE),
      Tax("VAT", Pct(10), TRUE, Undefined, TRUE, 0, FALSE),
      Tax("Luxury", Pct(10), FALSE, "subtotal", TRUE, Amt(100), TRUE),
      Tax("GST", Pct(18), FALSE, "netAfterDiscount", TRUE, 0, FALSE),
      Tax("Levy", Pct(5), FALSE, "charges", TRUE, 0, FALSE) }

ChargeLists ==
    { << >>,
      << Charge("Fee", "fixed", Amt(5), Undefined) >>,
      << Charge("Delivery", "fixed", Amt(20), Undefined),
         Charge("Service Fee", "percentage", 2, "subtotal") >> }

ConfigPool ==
    { Config(2, TRUE, NoDiscount, "", NoRates),
      Config(2, FALSE, NoDiscount, "", NoRates),
      Config(1, TRUE, Percent(10), "", NoRates) }

ItemLists == SeqsUpTo(ItemPool, MaxItems) \ { << >> }
TaxLists == SeqsUpTo(TaxPool, MaxTaxes)

GenericPayloads ==
    { Payload(is, cs, ts, c) :
        is \in ItemLists, cs \in ChargeLists, ts \in TaxLists, c \in ConfigPool }

\* the payloads of the repository's tests and documents
DefaultConfig == Config(2, TRUE, NoDiscount, "", NoRates)
Plain(name, qty, unitPrice) == Item(name, qty, unitPrice, NoDiscount, FALSE, "")
Rule(name, pct, inclusive, compound) ==
    Tax(name, Pct(pct), inclusive, Undefined, TRUE, 0, compound)

CompoundExample ==
    Payload(<< Plain("Item1", 1, Amt(100)) >>, << >>,
            << Rule("Tax1", 10, FALSE, FALSE), Rule("Tax2", 5, FALSE, TRUE) >>,
            DefaultConfig)
CompoundSwapped ==
    Payload(<< Plain("Item1", 1, Amt(100)) >>, << >>,
            << Rule("Tax2", 5, FALSE, TRUE), Rule("Tax1", 10, FALSE, FALSE) >>,
            DefaultConfig)
TwoInclusiveExample ==
    Payload(<< Plain("Item", 1, Amt(120)) >>, << >>,
            << Rule("VAT", 10, TRUE, FALSE), Rule("Service", 10, TRUE, FALSE) >>,
            DefaultConfig)
MixedExample ==
    Payload(<< Plain("Item", 1, Amt(110)) >>, << >>,
            << Rule("VAT", 10, TRUE, FALSE), Rule("Sales Tax", 5, FALSE, FALSE) >>,
            DefaultConfig)
InclusiveExample ==
    Payload(<< Plain("Item1", 1, Amt(110)) >>, << >>,
            << Rule("Tax", 10, TRUE, FALSE) >>, DefaultConfig)
ThresholdExample ==
    Payload(<< Plain("Item1", 1, Amt(50)) >>, << >>,
            << Tax("Tax", Pct(10), FALSE, Undefined, TRUE, Amt(100), FALSE) >>,
            DefaultConfig)
\* a compound rule whose base alone is below its threshold
ThresholdCompound ==
    Payload(<< Plain("Item1", 1, Amt(95)) >>, << >>,
            << Tax("Tax", Pct(10), FALSE, Undefined, TRUE, Amt(100), FALSE),
               Rule("Tax1", 10, FALSE, FALSE),
               Tax("Luxury", Pct(10), FALSE, Undefined, TRUE, Amt(100), TRUE) >>,
            DefaultConfig)
ComplexTaxes ==
    Payload(<< Plain("Small Item", 1, Amt(50)), Plain("Large Item", 1, Amt(200)) >>,
            << >>,
            << Tax("Basic Tax", Pct(10), FALSE, Undefined, TRUE, Amt(100), FALSE),
               Rule("Surcharge", 5, FALSE, TRUE) >>,
            DefaultConfig)
TaxFreeExample ==
    Payload(<< Plain("Item1", 1, Amt(100)),
               Item("Book", 1, Amt(100), NoDiscount, TRUE, "") >>, << >>,
            << Rule("Tax", 10, FALSE, FALSE) >>, DefaultConfig)
QuickStart ==
    Payload(<< Item("Laptop", 1, Amt(1000), Percent(10), FALSE, ""),
               Plain("Mouse", 2, Amt(50)) >>,
            << Charge("Delivery", "fixed", Amt(20), Undefined),
               Charge("Service Fee", "percentage", 2, Undefined) >>,
            << Tax("GST", Pct(18), FALSE, "netAfterDiscount", TRUE, 0, FALSE) >>,
            DefaultConfig)
DisabledTax ==
    Payload(<< Plain("Item1", 1, Amt(100)) >>, << >>,
            << Tax("Off", Pct(10), FALSE, Undefined, FALSE, 0, FALSE),
               Rule("Tax", 10, FALSE, FALSE) >>, DefaultConfig)
MultiCurrency ==
    Payload(<< Item("Item1", 1, Amt(100), NoDiscount, FALSE, "EUR") >>, << >>, << >>,
            Config(2, TRUE, NoDiscount, "", << Rate("EUR", 11, 10) >>))
Discounts ==
    Payload(<< Item("Laptop", 1, Amt(1000), Percent(10), FALSE, ""),
               Item("Pen", 1, Amt(10), Fixed(Amt(20)), FALSE, "") >>, << >>, << >>,
            Config(2, TRUE, Fixed(Amt(20)), "", NoRates))
\* charges of every kind and base, in every order, on a discounted bill
ChargePool ==
    { Charge("Delivery", "fixed", Amt(10), Undefined),
      Charge("Service Fee", "percentage", 5, Undefined),
      Charge("Packing", "percentage", 2, "subtotal"),
      Charge("Handling", "percentage", 3, "taxableBase"),
      Charge("Tip", "percentage", 4, "netAfterDiscount") }
ChargePayloads ==
    { Payload(<< Item("Laptop", 1, Amt(1000), Percent(10), FALSE, "") >>, cs,
              << >>, Config(2, TRUE, Fixed(Amt(20)), "", NoRates)) :
        cs \in SeqsUpTo(ChargePool, MaxCharges) }
    \cup { Payload(<< Plain("Item", 1, Amt(100)) >>,
                   << Charge("Delivery", "fixed", Amt(10), Undefined),
                      Charge("Service Fee", "percentage", 5, Undefined) >>,
                   << >>, DefaultConfig) }
\* items priced in the bill's currency and in three others, with rates below,
\* near and far above 1
CurrencyRates == << Rate("EUR", 11, 10), Rate("JPY", 150, 1), Rate("GBP", 4, 5) >>
CurrencyItems ==
    { Item("Item1", qty, price, NoDiscount, FALSE, c) :
        qty \in {1, 2}, price \in { Amt(100), Amt(1), 3335, 50 },
        c \in { "EUR", "JPY", "GBP", "USD" } }
CurrencyPayloads ==
    { Payload(<< it >>, << >>, << >>,
              Config(places, TRUE, NoDiscount, "", CurrencyRates)) :
        it \in CurrencyItems, places \in {1, 2} }
    \cup { Payload(<< Item("Item1", 1, Amt(100), NoDiscount, FALSE, "EUR"), it >>,
                   << >>, << >>,
                   Config(2, FALSE, NoDiscount, "", CurrencyRates)) :
             it \in CurrencyItems }
\* items naming a currency with and without a rate in the table, with and
\* without a table
UnratedPayloads ==
    { Payload(<< Item("Item1", 2, Amt(100), NoDiscount, FALSE, c) >>, << >>,
              << Rule("Tax", 10, FALSE, FALSE) >>,
              Config(2, TRUE, NoDiscount, "", rates)) :
        c \in { "", "USD", "EUR", "CHF", "constructor" },
        rates \in { NoRates, CurrencyRates } }

\* discounts larger than what they are taken from
OverDiscounted ==
    { Payload(<< Item("Pen", 1, Amt(10), d, FALSE, ""),
                 Plain("Book", 1, Amt(30)) >>, cs, ts,
              Config(2, TRUE, g, "", NoRates)) :
        d \in { Fixed(Amt(20)), Percent(100) },
        g \in { Fixed(Amt(50)), Fixed(Amt(30)), Percent(100), Percent(50) },
        cs \in { << >>, << Charge("Service Fee", "percentage", 5, Undefined) >> },
        ts \in { << >>, << Rule("Tax", 10, FALSE, FALSE) >> } }
PresetPayloads ==
    { Payload(<< Plain("Item1", 1, Amt(100)) >>, << >>, ts,
              Config(2, TRUE, NoDiscount, name, NoRates)) :
        name \in DOMAIN taxPresets,
        ts \in { << >>, << Rule("Tax", 10, FALSE, FALSE) >>,
                 << Rule("Tax1", 10, FALSE, FALSE),
                    Tax("Off", Pct(10), FALSE, Undefined, FALSE, 0, FALSE),
                    Rule("Tax2", 5, FALSE, TRUE) >> } }

ValidScenarios ==
    { CompoundExample, CompoundSwapped, TwoInclusiveExample, MixedExample,
      InclusiveExample, ThresholdExample, ThresholdCompound, ComplexTaxes,
      TaxFreeExample, QuickStart, DisabledTax, MultiCurrency, Discounts }
    \cup PresetPayloads \cup ChargePayloads \cup CurrencyPayloads
    \cup OverDiscounted \cup UnratedPayloads

\* payloads the validation is meant to reject, one defect each
OneItem(it) == Payload(<< it >>, << >>, << >>, DefaultConfig)
WithConfig(c) == Payload(<< Plain("Item1", 1, Amt(100)) >>, << >>, << >>, c)
WithCharge(applyOn, value) ==
    Payload(<< Plain("Item1", 1, Amt(100)) >>,
            << Charge("Fee", "fixed", value, applyOn) >>, << >>, DefaultConfig)
WithTax(applyOn, rate) ==
    Payload(<< Plain("Item1", 1, Amt(100)) >>, << >>,
            << Tax("Tax", rate, FALSE, applyOn, TRUE, 0, FALSE) >>, DefaultConfig)

MalformedPayloads ==
    { Payload(<< >>, << >>, << >>, DefaultConfig),
      OneItem(Plain("", 1, Amt(100))),
      OneItem(Plain("Item1", -1, Amt(100))),
      OneItem(Plain("Item1", 1, -Amt(100))),
      OneItem(Item("Item1", 1, Amt(100), Percent(150), FALSE, "")),
      OneItem(Item("Item1", 1, Amt(100), Percent(-5), FALSE, "")),
      OneItem(Item("Item1", 1, Amt(100), Fixed(-Amt(5)), FALSE, "")),
      Payload(<< Plain("Item1", 1, Amt(100)), Plain("Item2", -1, Amt(100)) >>,
              << >>, << Rule("Tax", 10, FALSE, FALSE) >>, DefaultConfig),
      WithCharge("bogus", Amt(5)),
      WithCharge("charges", Amt(5)),
      WithCharge("", Amt(5)),
      WithCharge(Undefined, -Amt(5)),
      WithTax("bogus", Pct(10)),
      WithTax("", Pct(10)),
      WithTax(Undefined, -Pct(10)),
      WithConfig(Config(11, TRUE, NoDiscount, "", NoRates)),
      WithConfig(Config(2, TRUE, Percent(150), "", NoRates)),
      WithConfig(Config(2, TRUE, Fixed(-Amt(5)), "", NoRates)),
      WithConfig(Config(2, TRUE, NoDiscount, "unknown", NoRates)),
      WithConfig(Config(2, TRUE, NoDiscount, "constructor", NoRates)),
      WithConfig(Config(2, TRUE, NoDiscount, "", << Rate("EUR", 0, 1) >>)),
      WithConfig(Config(2, TRUE, NoDiscount, "", << Rate("EUR", -11, 10) >>)) }

Payloads == GenericPayloads \cup ValidScenarios \cup MalformedPayloads

\* -------------------------------------------------- the incremental API
\* createBill, addItem, addGlobalDiscount, addTaxRule, usePlugin, setMeta
\* and calculateTotal.  A context is an object on a heap: `heap` is the
\* sequence of the context objects made so far, and a bill is an index
\* into it, so that an operation that changed the object it was given
\* would show.  An optional number is << >> when undefined and << v >>
\* otherwise.
BillItem(id, qty, unitPrice, addons, variations, discounts) ==
    [id |-> id, name |-> id, qty |-> qty, unitPrice |-> unitPrice,
     addons |-> addons, variations |-> variations, discounts |-> discounts]
SimpleItem(id, qty, unitPrice) ==
    BillItem(id, qty, unitPrice, << >>, << >>, << >>)

Discount(id, type, value, tiers) ==
    [id |-> id, type |-> type, value |-> value, tiers |-> tiers]
PercentOff(id, p) == Discount(id, "PERCENT", << p >>, << >>)
FixedOff(id, v) == Discount(id, "FIXED", << v >>, << >>)
Tier(minSubtotal, rate) == [minSubtotal |-> minSubtotal, rate |-> rate]
Tiered(id, tiers) == Discount(id, "TIERED", << >>, tiers)

TaxRule(name, rate, applyOn, inclusive, compound) ==
    [name |-> name, rate |-> rate, applyOn |-> applyOn,
     inclusive |-> inclusive, compound |-> compound]

\* the configuration with the defaults createBill fills in
BillConfig(currency, exchangeRate, decimalPlaces, roundOff) ==
    [currency |-> currency, exchangeRate |-> exchangeRate,
     decimalPlaces |-> decimalPlaces, roundOff |-> roundOff]
DefaultBillConfig == BillConfig(USD, [n |-> 1, d |-> 1], 2, TRUE)

BillContext(items, discounts, taxesOfBill, cfg, plugins, meta) ==
    [items |-> items, discounts |-> discounts, taxes |-> taxesOfBill,
     config |-> cfg, plugins |-> plugins, meta |-> meta]

NoMeta == [k \in {} |-> 0]

createBill(cfg) == BillContext(<< >>, << >>, << >>, cfg, << >>, NoMeta)

addItemInPlace(heap, b, item) ==
    Append([heap EXCEPT ![b].items = Append(@, item)],
           [heap[b] EXCEPT !.items = Append(@, item)])

\* each operation makes a new context object from the one it is given
addItem(heap, b, item) ==
    Append(heap, [heap[b] EXCEPT !.items = Append(@, item)])
addGlobalDiscount(heap, b, discount) ==
    Append(heap, [heap[b] EXCEPT !.discounts = Append(@, discount)])
addTaxRule(heap, b, tax) ==
    Append(heap, [heap[b] EXCEPT !.taxes = Append(@, tax)])
usePlugin(heap, b, plugins) ==
    Append(heap, [heap[b] EXCEPT !.plugins = @ \o plugins])
setMeta(heap, b, key, value) ==
    Append(heap, [heap[b] EXCEPT !.meta =
                     [k \in DOMAIN @ \cup {key} |->
                         IF k = key THEN value ELSE @[k]]])

\* ------------------------------------------- calculateTotal: the core
\* the tier a TIERED rule selects for `base`: the tiers sorted descending by
\* minSubtotal, the first whose minSubtotal is at most the base; << >> when
\* there is none
TierForListed(tiers, base) ==
    LET ok == { k \in 1..Len(tiers) : tiers[k].minSubtotal <= base }
    IN  IF ok = {} THEN << >>
        ELSE << tiers[CHOOSE k \in ok : \A j \in ok : k <= j] >>

TierFor(tiers, base) ==
    LET ok == { k \in 1..Len(tiers) : tiers[k].minSubtotal <= base }
        top == { k \in ok : \A j \in ok :
                    tiers[j].minSubtotal <= tiers[k].minSubtotal }
    IN  IF ok = {} THEN << >>
        ELSE << tiers[CHOOSE k \in top : \A j \in top : k <= j] >>

DiscountAmountClamped(d, base) ==
    LET amount == IF d.type = "TIERED"
                  THEN IF TierFor(d.tiers, base) = << >> THEN 0
                       ELSE MathRound(base * TierFor(d.tiers, base)[1].rate, 100)
                  ELSE IF d.value = << >> THEN 0
                  ELSE IF d.type = "PERCENT" THEN MathRound(base * d.value[1], 100)
                  ELSE d.value[1]
    IN  IF base <= 0 THEN 0 ELSE IF amount > base THEN base ELSE amount

\* the amount of one discount rule on the base it is applied to; a rule
\* without a value contributes nothing
DiscountAmount(d, base) ==
    IF d.type = "TIERED"
    THEN IF TierFor(d.tiers, base) = << >> THEN 0
         ELSE MathRound(base * TierFor(d.tiers, base)[1].rate, 100)
    ELSE IF d.value = << >> THEN 0
    ELSE IF d.type = "PERCENT" THEN MathRound(base * d.value[1], 100)
    ELSE d.value[1]

DiscountChainOnSubtotal(ds, base) ==
    [k \in 1..Len(ds) |-> DiscountAmount(ds[k], base)]

\* the amounts of the rules `ds` applied one after another, each on what
\* the rules before it left of `base`
RECURSIVE DiscountChain(_, _)
DiscountChain(ds, base) ==
    IF ds = << >> THEN << >>
    ELSE << DiscountAmount(Head(ds), base) >>
             \o DiscountChain(Tail(ds), base - DiscountAmount(Head(ds), base))

RECURSIVE ItemTotal(_)
ItemGrossFlat(it) ==
    it.unitPrice * it.qty
        + SumSeq([k \in 1..Len(it.addons) |-> ItemTotal(it.addons[k])])
        + SumSeq([k \in 1..Len(it.variations) |-> ItemTotal(it.variations[k])])

\* the gross total of an item: its unit price and the totals of its
\* add-ons and variations, times its quantity
ItemGross(it) ==
    (it.unitPrice
        + SumSeq([k \in 1..Len(it.addons) |-> ItemTotal(it.addons[k])])
        + SumSeq([k \in 1..Len(it.variations) |-> ItemTotal(it.variations[k])]))
    * it.qty

\* the item's gross total less its own discounts; not clamped at zero
ItemTotal(it) ==
    ItemGross(it) - SumSeq(DiscountChain(it.discounts, ItemGross(it)))

\* the tax engine: the inclusive rules are extracted together from the
\* discounted base and apportioned by rate, the exclusive rules are applied
\* in order on the net, a compound rule on the net plus the exclusive tax
\* accumulated so far
InclusiveRules(ts) == SelectSeq(ts, LAMBDA t : t.inclusive)
ExclusiveRules(ts) == SelectSeq(ts, LAMBDA t : ~t.inclusive)
CombinedRate(ts) == SumSeq([k \in 1..Len(ts) |-> ts[k].rate])

NetOfInclusive(ts, gross) ==
    IF InclusiveRules(ts) = << >> THEN gross
    ELSE MathRound(gross * RateDen, RateDen + CombinedRate(InclusiveRules(ts)))

InclusiveEntries(ts, gross) ==
    LET inc == InclusiveRules(ts)
        extracted == gross - NetOfInclusive(ts, gross)
    IN  [k \in 1..Len(inc) |->
            [name |-> inc[k].name, rate |-> inc[k].rate, inclusive |-> TRUE,
             amount |-> IF CombinedRate(inc) = 0 THEN 0
                        ELSE MathRound(extracted * inc[k].rate,
                                       CombinedRate(inc))]]

RECURSIVE ExclusiveEntries(_, _, _, _)
ExclusiveEntries(ts, sub, net, accumulatedTax) ==
    IF ts = << >> THEN << >>
    ELSE LET t == Head(ts)
             base == IF t.applyOn = "subtotal" THEN sub ELSE net
             amount == MathRound((base + (IF t.compound THEN accumulatedTax
                                          ELSE 0)) * t.rate, RateDen)
         IN  << [name |-> t.name, rate |-> t.rate, inclusive |-> FALSE,
                 amount |-> amount] >>
                 \o ExclusiveEntries(Tail(ts), sub, net, accumulatedTax + amount)

\* the amounts of the core calculation for a context, at internal precision
CoreCalc(ctx) ==
    LET itemTotals == [i \in 1..Len(ctx.items) |-> ItemTotal(ctx.items[i])]
        sub == SumSeq(itemTotals)
        discountAmounts == DiscountChain(ctx.discounts, sub)
        discounted == sub - SumSeq(discountAmounts)
        net == NetOfInclusive(ctx.taxes, discounted)
        inclusive == InclusiveEntries(ctx.taxes, discounted)
        exclusive == ExclusiveEntries(ExclusiveRules(ctx.taxes), sub, net, 0)
        exclusiveTotal == SumSeq([k \in 1..Len(exclusive) |-> exclusive[k].amount])
    IN  [itemTotals |-> itemTotals,
         subtotal |-> sub - (discounted - net),
         discountAmounts |-> discountAmounts,
         discounts |-> SumSeq(discountAmounts),
         taxEntries |-> inclusive \o exclusive,
         taxes |-> (discounted - net) + exclusiveTotal,
         total |-> discounted + exclusiveTotal]

ReportedUnconverted(x, cfg) ==
    IF cfg.roundOff THEN roundTo(x, 1, cfg.decimalPlaces) ELSE x

\* an amount as it is reported: times the exchange rate, rounded to the
\* display places unless roundOff is off
Reported(x, cfg) ==
    IF cfg.roundOff
    THEN roundTo(x * cfg.exchangeRate.n, cfg.exchangeRate.d, cfg.decimalPlaces)
    ELSE MathRound(x * cfg.exchangeRate.n, cfg.exchangeRate.d)

\* the BillResult of a core calculation
BillResult(ctx, core) ==
    [subtotal |-> Reported(core.subtotal, ctx.config),
     discounts |-> Reported(core.discounts, ctx.config),
     taxes |-> Reported(core.taxes, ctx.config),
     total |-> Reported(core.total, ctx.config),
     breakdown |->
        [items |-> [i \in 1..Len(ctx.items) |->
                       [id |-> ctx.items[i].id, name |-> ctx.items[i].name,
                        total |-> Reported(core.itemTotals[i], ctx.config)]],
         taxBreakdown |-> [k \in 1..Len(core.taxEntries) |->
                              [core.taxEntries[k] EXCEPT !.amount =
                                  Reported(@, ctx.config)]],
         discountBreakdown |-> [k \in 1..Len(ctx.discounts) |->
                                  [id |-> ctx.discounts[k].id,
                                   type |-> ctx.discounts[k].type,
                                   amount |-> Reported(core.discountAmounts[k],
                                                       ctx.config)]]],
     meta |-> ctx.meta]

\* ------------------------------------------------------------ plugins
loyaltyPointsPlugin(n, d) == [name |-> "loyalty", rate |-> [n |-> n, d |-> d]]
regionTaxPlugin(region, rate) ==
    [name |-> "region-vat", region |-> region, rate |-> rate]
promoPlugin(code, valid, discount) ==
    [name |-> "promo", code |-> code, valid |-> valid, discount |-> discount]

\* a plugin that marks the metadata in each phase
customPlugin == [name |-> "custom"]

WithMeta(meta, key, value) ==
    [k \in DOMAIN meta \cup {key} |-> IF k = key THEN value ELSE meta[k]]

\* the context merged with the result of the core calculation
Merged(ctx, res) ==
    [k \in DOMAIN ctx \cup {"result"} |-> IF k = "result" THEN res ELSE ctx[k]]

\* a plugin whose afterCalc hook rewrites the amounts of the result it is
\* given and adds a discount to the context
overwritingPlugin == [name |-> "overwrite"]

\* plugin.transform(phase, ctx); ctx.result is there only after the core
\* calculation
Transform(p, phase, ctx) ==
    IF p.name = "loyalty"
    THEN IF phase = "afterCalc" /\ "result" \in DOMAIN ctx
         THEN [ctx EXCEPT !.meta =
                  WithMeta(@, "loyaltyPoints",
                           (ctx.result.total * p.rate.n) \div (p.rate.d * Scale))]
         ELSE ctx
    ELSE IF p.name = "region-vat"
    THEN IF phase = "beforeCalc" /\ p.rate > 0
         THEN [ctx EXCEPT !.taxes =
                  Append(@, TaxRule(p.region, p.rate, Undefined, FALSE, FALSE))]
         ELSE ctx
    ELSE IF p.name = "promo"
    THEN IF phase = "beforeCalc" /\ p.valid
         THEN [ctx EXCEPT !.discounts = Append(@, p.discount),
                          !.meta = WithMeta(@, "appliedPromo", p.code)]
         ELSE ctx
    ELSE IF p.name = "overwrite"
    THEN IF phase = "afterCalc" /\ "result" \in DOMAIN ctx
         THEN [ctx EXCEPT !.result.subtotal = 0, !.result.discounts = 0,
                          !.result.taxes = 0, !.result.total = 0,
                          !.discounts = Append(@, FixedOff("late", Amt(1))),
                          !.meta = WithMeta(@, "overwritten", "true")]
         ELSE ctx
    ELSE [ctx EXCEPT !.meta = WithMeta(@, phase, "true")]

RunHooksLast(plugins, phase, ctx) ==
    IF plugins = << >> THEN ctx
    ELSE Transform(plugins[Len(plugins)], phase, ctx)

\* the hooks of one phase, folded over the plugins in registration order
RECURSIVE RunHooks(_, _, _)
RunHooks(plugins, phase, ctx) ==
    IF plugins = << >> THEN ctx
    ELSE RunHooks(Tail(plugins), phase, Transform(Head(plugins), phase, ctx))

calculateTotalFromHooks(ctx) ==
    LET before == RunHooks(ctx.plugins, "beforeCalc", ctx)
        core == CoreCalc(before)
        res == BillResult(before, core)
        after == RunHooks(before.plugins, "afterCalc", Merged(before, res))
    IN  [core |-> core, result |-> [after.result EXCEPT !.meta = after.meta]]

\* calculateTotal(bill): the beforeCalc hooks, the core calculation, the
\* afterCalc hooks on the context merged with the result; the published
\* result takes the metadata of the hook chain and keeps the amounts of
\* the core calculation
calculateTotal(ctx) ==
    LET before == RunHooks(ctx.plugins, "beforeCalc", ctx)
        core == CoreCalc(before)
        res == BillResult(before, core)
        after == RunHooks(before.plugins, "afterCalc", Merged(before, res))
    IN  [core |-> core, result |-> [res EXCEPT !.meta = after.meta]]

\* ---------------------------------------------------------------- state
VARIABLES
    payload,                \* the argument of calculateBill
    pc,                     \* the step calculateBill is at
    error,                  \* the exception thrown, << >> when none
    taxes,                  \* the effective tax rules
    itemBreakdowns, subtotal, totalItemDiscount,
    globalDiscountAbs, netAfterGlobalDiscount,
    chargeBreakdowns, totalCharges,
    taxAcc,                 \* taxBreakdowns and the running tax sums
    beforeRoundTotal, roundDiff,
    result,                 \* the BillingResult returned, << >> when none
    bills,                  \* the heap of the contexts of the incremental API
    billResult,             \* the last calculateTotal: its bill and outcome
    earlier                 \* the outcome of the call of calculateBill before
                            \* this one, << >> when there was none

vars == << payload, pc, error, taxes, itemBreakdowns, subtotal,
           totalItemDiscount, globalDiscountAbs, netAfterGlobalDiscount,
           chargeBreakdowns, totalCharges, taxAcc, beforeRoundTotal,
           roundDiff, result, bills, billResult, earlier >>

calcVars == << payload, pc, error, taxes, itemBreakdowns, subtotal,
               totalItemDiscount, globalDiscountAbs, netAfterGlobalDiscount,
               chargeBreakdowns, totalCharges, taxAcc, beforeRoundTotal,
               roundDiff, result, earlier >>
billVars == << bills, billResult >>

locals == << taxes, itemBreakdowns, subtotal, totalItemDiscount,
             globalDiscountAbs, netAfterGlobalDiscount, chargeBreakdowns,
             totalCharges, taxAcc, beforeRoundTotal, roundDiff >>

config == payload.config
ip == config.decimalInternalPrecision
dp == config.decimalPlaces

Init ==
    /\ payload \in Payloads
    /\ pc = "validate"
    /\ error = << >>
    /\ taxes = << >>
    /\ itemBreakdowns = << >>
    /\ subtotal = 0
    /\ totalItemDiscount = 0
    /\ globalDiscountAbs = 0
    /\ netAfterGlobalDiscount = 0
    /\ chargeBreakdowns = << >>
    /\ totalCharges = 0
    /\ taxAcc = NoTaxes
    /\ beforeRoundTotal = 0
    /\ roundDiff = 0
    /\ result = << >>
    /\ bills = << >>
    /\ billResult = << >>
    /\ earlier = << >>

Throw(name, field) ==
    /\ pc' = "thrown"
    /\ error' = << [name |-> name, field |-> field] >>

\* validatePayload(payload)
Validate ==
    /\ pc = "validate"
    /\ UNCHANGED << billVars, earlier >>
    /\ IF validatePayload(payload) # << >>
       THEN Throw("ValidationError", validatePayload(payload))
       ELSE pc' = "preset" /\ error' = error
    /\ UNCHANGED << payload, locals, result >>

\* the enabled rules of the payload, then those of config.taxPreset
MergePreset ==
    /\ pc = "preset"
    /\ UNCHANGED << billVars, earlier >>
    /\ IF config.taxPreset # "" /\ PresetLookup(config.taxPreset) = Undefined
       THEN /\ Throw("ValidationError", << "config", "taxPreset" >>)
            /\ taxes' = EnabledTaxes(payload.taxes)
       ELSE IF config.taxPreset # "" /\ PresetLookup(config.taxPreset) # "array"
       THEN /\ Throw("TypeError", << >>)
            /\ taxes' = EnabledTaxes(payload.taxes)
       ELSE /\ taxes' = MergedTaxes(payload)
            /\ pc' = "items"
            /\ error' = error
    /\ UNCHANGED << payload, itemBreakdowns, subtotal, totalItemDiscount,
                    globalDiscountAbs, netAfterGlobalDiscount,
                    chargeBreakdowns, totalCharges, taxAcc, beforeRoundTotal, roundDiff, result >>

\* step 1: the item loop and the two sums it leaves.  A base price that is
\* NaN makes the subtotal and with it every amount of the result NaN; no
\* step throws, and the call returns that result: pc = "nan"
ProcessItems ==
    /\ pc = "items"
    /\ UNCHANGED << billVars, earlier >>
    /\ IF \E i \in 1..Len(payload.items) :
              UnitPriceIsNaN(payload.items[i], config)
       THEN /\ pc' = "nan"
            /\ result' = << NaN >>
            /\ UNCHANGED << itemBreakdowns, subtotal, totalItemDiscount >>
       ELSE /\ LET calc == [i \in 1..Len(payload.items) |->
                               ItemCalc(payload.items[i], taxes, config)]
               IN  /\ itemBreakdowns' =
                         [i \in 1..Len(payload.items) |->
                             ItemBreakdown(i - 1, payload.items[i], calc[i], config)]
                   /\ subtotal' = internalRound(
                         SumSeq([i \in 1..Len(calc) |-> calc[i].basePrice]), 1, ip)
                   /\ totalItemDiscount' = internalRound(
                         SumSeq([i \in 1..Len(calc) |-> calc[i].itemDiscountAbs]),
                         1, ip)
            /\ pc' = "discount"
            /\ result' = result
    /\ UNCHANGED << payload, error, taxes, globalDiscountAbs,
                    netAfterGlobalDiscount, chargeBreakdowns, totalCharges,
                    taxAcc, beforeRoundTotal, roundDiff >>

\* step 2: the global discount on the net after item discounts
ApplyGlobalDiscount ==
    /\ pc = "discount"
    /\ UNCHANGED << billVars, earlier >>
    /\ LET netAfterItemDiscounts ==
               internalRound(subtotal - totalItemDiscount, 1, ip)
           g == GlobalDiscountAbs(config.globalDiscount, netAfterItemDiscounts, ip)
       IN  /\ globalDiscountAbs' = g
           /\ netAfterGlobalDiscount' =
                 internalRound(netAfterItemDiscounts - g, 1, ip)
    /\ pc' = "charges"
    /\ UNCHANGED << payload, error, taxes, itemBreakdowns, subtotal,
                    totalItemDiscount, chargeBreakdowns, totalCharges,
                    taxAcc, beforeRoundTotal, roundDiff, result >>

\* step 3: the charge loop
ComputeCharges ==
    /\ pc = "charges"
    /\ UNCHANGED << billVars, earlier >>
    /\ chargeBreakdowns' =
          [k \in 1..Len(payload.charges) |->
              ChargeBreakdown(payload.charges[k], subtotal,
                              netAfterGlobalDiscount, ip, config)]
    /\ totalCharges' = internalRound(
          SumSeq([k \in 1..Len(payload.charges) |->
                     ChargeAmount(payload.charges[k], subtotal,
                                  netAfterGlobalDiscount, ip)]), 1, ip)
    /\ pc' = "taxes"
    /\ UNCHANGED << payload, error, taxes, itemBreakdowns, subtotal,
                    totalItemDiscount, globalDiscountAbs,
                    netAfterGlobalDiscount, taxAcc, beforeRoundTotal, roundDiff, result >>

ComputeTaxesOnto ==
    /\ pc = "taxes"
    /\ UNCHANGED << billVars, earlier >>
    /\ taxAcc' = TaxLoop(taxAcc, taxes, subtotal, netAfterGlobalDiscount,
                         totalCharges, ip, config)
    /\ pc' = "total"
    /\ UNCHANGED << payload, error, taxes, itemBreakdowns, subtotal,
                    totalItemDiscount, globalDiscountAbs,
                    netAfterGlobalDiscount, chargeBreakdowns, totalCharges,
                    beforeRoundTotal, roundDiff, result >>

\* step 4: the tax loop
ComputeTaxes ==
    /\ pc = "taxes"
    /\ UNCHANGED << billVars, earlier >>
    /\ taxAcc' = TaxLoop(NoTaxes, taxes, subtotal, netAfterGlobalDiscount,
                         totalCharges, ip, config)
    /\ pc' = "total"
    /\ UNCHANGED << payload, error, taxes, itemBreakdowns, subtotal,
                    totalItemDiscount, globalDiscountAbs,
                    netAfterGlobalDiscount, chargeBreakdowns, totalCharges,
                    beforeRoundTotal, roundDiff, result >>

\* step 5 and the assembly of the result
FinalTotal ==
    /\ pc = "total"
    /\ UNCHANGED << billVars, earlier >>
    /\ LET totalExclusiveTaxes == internalRound(taxAcc.totalExclusiveTaxes, 1, ip)
           total == BeforeRoundTotal(netAfterGlobalDiscount, totalCharges,
                                     totalExclusiveTaxes, ip)
           finalTotal == RoundOff(total, config)[1]
           diff == RoundOff(total, config)[2]
       IN  /\ beforeRoundTotal' = total
           /\ roundDiff' = diff
           /\ result' =
                << [currency |-> config.currency,
                    subtotal |-> Display(subtotal, config),
                    totalItemDiscount |-> Display(totalItemDiscount, config),
                    globalDiscount |-> Display(globalDiscountAbs, config),
                    taxableBase |-> Display(netAfterGlobalDiscount, config),
                    charges |-> chargeBreakdowns,
                    taxes |-> taxAcc.taxBreakdowns,
                    roundOff |-> Display(diff, config),
                    total |-> Display(finalTotal, config),
                    convertedTotals |-> ConvertedTotals(finalTotal, config),
                    items |-> itemBreakdowns] >>
    /\ pc' = "done"
    /\ UNCHANGED << payload, error, taxes, itemBreakdowns, subtotal,
                    totalItemDiscount, globalDiscountAbs,
                    netAfterGlobalDiscount, chargeBreakdowns, totalCharges,
                    taxAcc >>

\* the caller calls calculateBill again with the payload it still holds;
\* what the call before left is kept to compare, and the variables of the
\* steps are left as they are: each step assigns its own before it reads
\* them
CallAgain ==
    /\ pc \in {"done", "thrown"}
    /\ earlier' = << [result |-> result, error |-> error] >>
    /\ pc' = "validate"
    /\ error' = << >>
    /\ result' = << >>
    /\ UNCHANGED << payload, locals, billVars >>

Next ==
    \/ Validate
    \/ MergePreset
    \/ ProcessItems
    \/ ApplyGlobalDiscount
    \/ ComputeCharges
    \/ ComputeTaxes
    \/ FinalTotal

Spec == Init /\ [][Next]_vars

\* calculateBill called time and again on the payloads of the repository's
\* tests and documents and on the malformed ones
InitAgain ==
    /\ payload \in ValidScenarios \cup MalformedPayloads
    /\ pc = "validate"
    /\ error = << >>
    /\ taxes = << >>
    /\ itemBreakdowns = << >>
    /\ subtotal = 0
    /\ totalItemDiscount = 0
    /\ globalDiscountAbs = 0
    /\ netAfterGlobalDiscount = 0
    /\ chargeBreakdowns = << >>
    /\ totalCharges = 0
    /\ taxAcc = NoTaxes
    /\ beforeRoundTotal = 0
    /\ roundDiff = 0
    /\ result = << >>
    /\ bills = << >>
    /\ billResult = << >>
    /\ earlier = << >>

NextAgain ==
    \/ Validate
    \/ MergePreset
    \/ ProcessItems
    \/ ApplyGlobalDiscount
    \/ ComputeCharges
    \/ ComputeTaxes
    \/ FinalTotal
    \/ CallAgain

SpecAgain == InitAgain /\ [][NextAgain]_vars

\* ------------------------------------- the incremental API: the contexts
StandardTiers == << Tier(0, 0), Tier(Amt(1000), 5), Tier(Amt(2000), 10) >>
TierOrders ==
    { StandardTiers,
      << Tier(Amt(1000), 5), Tier(Amt(2000), 10), Tier(0, 0) >> }

OneItemBill(item) ==
    BillContext(<< item >>, << >>, << >>, DefaultBillConfig, << >>, NoMeta)

TieredBills ==
    { [OneItemBill(SimpleItem("i1", 1, Amt(price)))
          EXCEPT !.discounts = << Tiered("d1", tiers) >>] :
        price \in {999, 1000, 1999, 2000}, tiers \in TierOrders }
    \cup { [OneItemBill(SimpleItem("i1", 1, Amt(1000)))
               EXCEPT !.discounts = << Tiered("d1", << >>) >>] }

\* a TIERED rule registered after a discount that takes the base below 1000
TieredAfter ==
    [OneItemBill(SimpleItem("i1", 1, Amt(1000)))
        EXCEPT !.discounts = << PercentOff("d1", 10), Tiered("d3", StandardTiers) >>]

\* n PERCENT discounts of 1% on an item of 1000
ManyDiscounts(n) ==
    [OneItemBill(SimpleItem("i1", 1, Amt(1000)))
        EXCEPT !.discounts = [k \in 1..n |-> PercentOff("d", 1)]]

Pizza ==
    BillItem("pizza", 1, Amt(10),
             << SimpleItem("cheese", 1, Amt(2)),
                SimpleItem("pepperoni", 1, Amt(3)) >>, << >>, << >>)
Burger ==
    BillItem("burger", 2, Amt(8), << SimpleItem("bacon", 1, Amt(2)) >>,
             << SimpleItem("large", 1, Amt(1)) >>, << >>)
Meal ==
    BillItem("meal", 1, Amt(10), << SimpleItem("drink", 1, Amt(5)) >>, << >>,
             << PercentOff("d1", 10) >>)
DeepItem ==
    BillItem("base", 1, Amt(10),
             << BillItem("addon1", 1, Amt(5),
                         << SimpleItem("nested", 1, Amt(2)) >>, << >>, << >>) >>,
             << >>, << >>)
\* children with their own quantity and discount, two discounts on the item
Combo ==
    BillItem("combo", 2, Amt(20),
             << BillItem("side", 3, Amt(4), << SimpleItem("dip", 2, 500) >>,
                         << >>, << FixedOff("d0", Amt(1)) >>) >>,
             << SimpleItem("large", 1, Amt(1)) >>,
             << PercentOff("d1", 10), PercentOff("d2", 10) >>)
NestedBills ==
    { OneItemBill(Pizza), OneItemBill(Combo),
      [OneItemBill(Burger) EXCEPT !.items = << Burger, Meal, DeepItem >>] }

\* a fixed global discount of 100 on a subtotal of 50, and an item of 10
\* with a fixed discount of 15 of its own
OverDiscountedBills ==
    { [OneItemBill(SimpleItem("i1", 1, Amt(50)))
          EXCEPT !.discounts = << FixedOff("d1", Amt(100)) >>],
      OneItemBill(BillItem("i1", 1, Amt(10), << >>, << >>,
                           << FixedOff("d0", Amt(15)) >>)) }

\* an item of 100 with plugins registered in different orders
Loyalty5 == loyaltyPointsPlugin(5, 100)
Save10 == promoPlugin("SAVE10", TRUE, PercentOff("promo", 10))
PluginLists ==
    { << Loyalty5, regionTaxPlugin("FR", Pct(20)) >>,
      << regionTaxPlugin("FR", Pct(20)), Loyalty5 >>,
      << Loyalty5, Save10, regionTaxPlugin("DE", Pct(19)) >>,
      << regionTaxPlugin("DE", Pct(19)), regionTaxPlugin("FR", Pct(20)),
         customPlugin >>,
      << promoPlugin("INVALID", FALSE, PercentOff("promo", 10)),
         loyaltyPointsPlugin(1, 100), regionTaxPlugin("XX", 0), Loyalty5 >>,
      << regionTaxPlugin("FR", Pct(20)), overwritingPlugin, Loyalty5 >> }
PluginBills ==
    { [OneItemBill(SimpleItem("i1", 1, Amt(100))) EXCEPT !.plugins = ps] :
        ps \in PluginLists }

\* an item of 100, a fixed discount of 10 and a 20% tax at rate 0.85
AllComponents ==
    BillContext(<< SimpleItem("i1", 1, Amt(100)) >>,
                << FixedOff("d1", Amt(10)) >>,
                << TaxRule("VAT", Pct(20), Undefined, FALSE, FALSE) >>,
                BillConfig("GBP", [n |-> 17, d |-> 20], 2, TRUE),
                << >>, NoMeta)

BillPool ==
    { createBill(DefaultBillConfig),
      createBill(BillConfig("EUR", [n |-> 6, d |-> 5], 1, TRUE)),
      createBill(BillConfig(USD, [n |-> 1, d |-> 1], 2, FALSE)),
      ManyDiscounts(10), TieredAfter }
    \cup TieredBills
    \cup NestedBills
    \cup OverDiscountedBills
    \cup PluginBills
    \cup { AllComponents }

AddableItems == { Pizza }
AddableDiscounts == { PercentOff("d1", 10), FixedOff("d2", Amt(5)) }
AddableTaxes == { TaxRule("VAT", Pct(10), Undefined, TRUE, FALSE) }
AddablePlugins == { << loyaltyPointsPlugin(1, 100) >> }
AddableMeta == { << "orderId", "12345" >> }

InitBill ==
    /\ bills \in { << c >> : c \in BillPool }
    /\ billResult = << >>
    /\ payload = QuickStart
    /\ pc = "idle"
    /\ error = << >>
    /\ taxes = << >>
    /\ itemBreakdowns = << >>
    /\ subtotal = 0
    /\ totalItemDiscount = 0
    /\ globalDiscountAbs = 0
    /\ netAfterGlobalDiscount = 0
    /\ chargeBreakdowns = << >>
    /\ totalCharges = 0
    /\ taxAcc = NoTaxes
    /\ beforeRoundTotal = 0
    /\ roundDiff = 0
    /\ result = << >>
    /\ earlier = << >>

AddItem ==
    /\ Len(bills) < MaxBills
    /\ \E b \in 1..Len(bills), item \in AddableItems :
          bills' = addItem(bills, b, item)
    /\ UNCHANGED << billResult, calcVars >>

AddGlobalDiscount ==
    /\ Len(bills) < MaxBills
    /\ \E b \in 1..Len(bills), discount \in AddableDiscounts :
          bills' = addGlobalDiscount(bills, b, discount)
    /\ UNCHANGED << billResult, calcVars >>

AddTaxRule ==
    /\ Len(bills) < MaxBills
    /\ \E b \in 1..Len(bills), tax \in AddableTaxes :
          bills' = addTaxRule(bills, b, tax)
    /\ UNCHANGED << billResult, calcVars >>

UsePlugin ==
    /\ Len(bills) < MaxBills
    /\ \E b \in 1..Len(bills), plugins \in AddablePlugins :
          bills' = usePlugin(bills, b, plugins)
    /\ UNCHANGED << billResult, calcVars >>

SetMeta ==
    /\ Len(bills) < MaxBills
    /\ \E b \in 1..Len(bills), kv \in AddableMeta :
          bills' = setMeta(bills, b, kv[1], kv[2])
    /\ UNCHANGED << billResult, calcVars >>

CalculateTotal ==
    /\ \E b \in 1..Len(bills) :
          billResult' = << [bill |-> b,
                            core |-> calculateTotal(bills[b]).core,
                            result |-> calculateTotal(bills[b]).result] >>
    /\ UNCHANGED << bills, calcVars >>

NextBill ==
    \/ AddItem
    \/ AddGlobalDiscount
    \/ AddTaxRule
    \/ UsePlugin
    \/ SetMeta
    \/ CalculateTotal

SpecBill == InitBill /\ [][NextBill]_vars

\* ------------------------------------------------ reading a final state
Done == pc = "done"
Entries == taxAcc.taxBreakdowns
Indices(seq) == 1..Len(seq)

\* the internal amount of a charge entry, as its formula gives it
ChargeInternal(c) == IF c.kind = "fixed" THEN c.value ELSE c.formula.amount

\* the base the applyOn of rule t selects
SelectedBase(t) ==
    TaxBase(IF t.applyOn = Undefined THEN "taxableBase" ELSE t.applyOn,
            subtotal, netAfterGlobalDiscount, totalCharges)

\* the internal tax amounts of the entries before position k, summed
PriorTax(k) == SumSeq([j \in 1..(k - 1) |-> Entries[j].formula.taxAmount])

\* rule t applied in full on the base eff
FullTax(t, eff) ==
    IF t.inclusive
    THEN eff - internalRound(eff * RateDen, RateDen + t.rate, ip)
    ELSE internalRound(eff * t.rate, RateDen, ip)

ExclusiveSum ==
    SumSeq([k \in Indices(Entries) |->
               IF Entries[k].inclusive THEN 0 ELSE Entries[k].formula.taxAmount])

\* ---------------------------------------------------------------- claims

\* C1: for every payload that passes validation the total at internal
\* precision is the net after all discounts plus the sum of the charge
\* amounts plus the sum of the amounts of the exclusive rules only; the
\* amount of an inclusive rule is never part of it.
C1_TotalIdentity ==
    Done =>
        /\ netAfterGlobalDiscount = subtotal - totalItemDiscount - globalDiscountAbs
        /\ beforeRoundTotal =
              netAfterGlobalDiscount
              + SumSeq([k \in Indices(result[1].charges) |->
                           ChargeInternal(result[1].charges[k])])
              + ExclusiveSum

C1_Witness ==
    /\ Done
    /\ \E k \in Indices(Entries) :
          Entries[k].inclusive /\ Entries[k].formula.taxAmount > 0
    /\ ExclusiveSum > 0
    /\ totalCharges > 0
    /\ globalDiscountAbs > 0

\* C2: tax rules are applied in list order; a compound rule is computed on
\* its selected base plus the tax amounts of the rules before it, any other
\* rule on its selected base alone.  Item 100 with 10% followed by 5%
\* compound gives 10 and 5.5 and a total of 115.5; with the two rules
\* swapped the amounts are 5 and 10.
C2_CompoundOrder ==
    Done =>
        /\ Len(Entries) = Len(taxes)
        /\ \A k \in Indices(Entries) :
              /\ Entries[k].name = taxes[k].name
              /\ Entries[k].formula.effectiveBase =
                    SelectedBase(taxes[k])
                    + (IF taxes[k].compound THEN PriorTax(k) ELSE 0)
              /\ Entries[k].formula.text # "Below threshold" =>
                    Entries[k].formula.taxAmount =
                        FullTax(taxes[k], Entries[k].formula.effectiveBase)
        /\ payload = CompoundExample =>
              /\ result[1].taxes[1].amount = Amt(10)
              /\ result[1].taxes[2].amount = Amt(5) + 500
              /\ result[1].total = Amt(115) + 500
        /\ payload = CompoundSwapped =>
              /\ result[1].taxes[1].amount = Amt(5)
              /\ result[1].taxes[2].amount = Amt(10)

C2_Witness ==
    /\ Done
    /\ payload = CompoundExample
    /\ Entries[2].formula.effectiveBase = Amt(110)
    /\ result[1].taxes[2].amount = Amt(5) + 500

\* C3: when several enabled rules are inclusive their rates are summed into
\* R, the inclusive tax G - G/(1 + R/100) is extracted once from the gross
\* base G and each inclusive rule reports the share total * rate / R; two
\* 10% inclusive rules on a gross of 120 report 20 in total.
C3_InclusiveApportioned ==
    LET incl == { k \in Indices(Entries) : Entries[k].inclusive }
        R == SumSeq([k \in Indices(Entries) |->
                        IF k \in incl THEN taxes[k].rate ELSE 0])
        G == netAfterGlobalDiscount
        total == G - internalRound(G * RateDen, RateDen + R, ip)
    IN  ( /\ Done
          /\ Cardinality(incl) >= 2
          /\ \A k \in incl : /\ SelectedBase(taxes[k]) = G
                             /\ ~taxes[k].compound
                             /\ taxes[k].threshold = 0 )
        => /\ \A k \in incl :
                 Entries[k].formula.taxAmount =
                     internalRound(total * taxes[k].rate, R, ip)
           /\ payload = TwoInclusiveExample =>
                 result[1].taxes[1].amount + result[1].taxes[2].amount = Amt(20)

\* C4: with inclusive and exclusive rules on one bill every exclusive rule
\* is computed on the net base left after the inclusive tax was extracted:
\* gross 110 with 10% inclusive and 5% exclusive gives inclusive tax 10,
\* exclusive tax 5 and total 115.
C4_ExclusiveOnNet ==
    LET incl == { k \in Indices(Entries) : Entries[k].inclusive }
        G == netAfterGlobalDiscount
    IN  ( /\ Done
          /\ Cardinality(incl) = 1
          /\ \A k \in Indices(Entries) : /\ SelectedBase(taxes[k]) = G
                                         /\ ~taxes[k].compound
                                         /\ taxes[k].threshold = 0 )
        => /\ \A k \in Indices(Entries) \ incl :
                 Entries[k].formula.effectiveBase =
                     internalRound(G * RateDen,
                                   RateDen + taxes[CHOOSE i \in incl : TRUE].rate, ip)
           /\ payload = MixedExample =>
                 /\ result[1].taxes[1].amount = Amt(10)
                 /\ result[1].taxes[2].amount = Amt(5)
                 /\ result[1].total = Amt(115)

Malformed(p) ==
    \/ Len(p.items) = 0
    \/ \E i \in Indices(p.items) :
          \/ p.items[i].qty < 0
          \/ p.items[i].unitPrice < 0
          \/ /\ p.items[i].discount.kind = "percentage"
             /\ p.items[i].discount.value \notin 0..100
    \/ /\ p.config.globalDiscount.kind = "percentage"
       /\ p.config.globalDiscount.value \notin 0..100
    \/ \E k \in Indices(p.charges) :
          p.charges[k].applyOn \notin ChargeApplyOn \cup {Undefined}
    \/ \E k \in Indices(p.taxes) :
          p.taxes[k].applyOn \notin TaxApplyOn \cup {Undefined}
    \/ p.config.taxPreset \notin DOMAIN taxPresets \cup {""}
    \/ \E k \in Indices(p.config.exchangeRates) : p.config.exchangeRates[k].n <= 0

\* C6: a payload with an empty item list, a negative quantity or unit
\* price, a discount percent outside [0,100], an unknown applyOn on a charge
\* or tax, an unknown tax preset or a non-positive exchange rate is rejected
\* with a ValidationError before any arithmetic: the calculation never gets
\* past the validation and no result is produced.
C6_MalformedRejected ==
    Malformed(payload) =>
        /\ pc \in {"validate", "thrown"}
        /\ pc = "thrown" => error[1].name = "ValidationError"
        /\ result = << >>

\* C7: the net price of a taxFree item is part of the base of no tax rule:
\* on a bill without global discount a rule on 'taxableBase' is computed on
\* the net prices of the other items only.
C7_TaxFreeOutsideBase ==
    LET net(i) == ItemCalc(payload.items[i], taxes, config).netPrice
        taxable == SumSeq([i \in Indices(payload.items) |->
                              IF payload.items[i].taxFree THEN 0 ELSE net(i)])
    IN  (Done /\ config.globalDiscount.kind = "none") =>
            \A k \in Indices(Entries) :
                (Entries[k].applyOn = "taxableBase" /\ ~taxes[k].compound) =>
                    Entries[k].formula.effectiveBase = taxable

\* C8: a rule with applyOn 'netAfterDiscount' is computed on the amount left
\* after all discounts and before charges, the same quantity as
\* 'taxableBase'; no charge is part of its base.  The laptop bill of the
\* README (net 1000, two charges, 18% on netAfterDiscount) has a tax of 180.
C8_NetAfterDiscountBase ==
    Done =>
        /\ \A k \in Indices(Entries) :
              Entries[k].applyOn = "netAfterDiscount" =>
                  Entries[k].formula.effectiveBase =
                      netAfterGlobalDiscount
                      + (IF taxes[k].compound THEN PriorTax(k) ELSE 0)
        /\ payload = QuickStart => result[1].taxes[1].amount = Amt(180)

\* C9: with roundOff enabled the reported residual is the rounded total
\* minus the unrounded total, so that result.total - result.roundOff is the
\* total at internal precision.
C9_ResidualReported ==
    (Done /\ config.roundOff) =>
        result[1].total - result[1].roundOff = beforeRoundTotal

\* x is a multiple of the display unit
IsDisplayed(x) ==
    dp >= ScaleDigits \/ x % Pow10(ScaleDigits - dp) = 0

ChargeAlone(ch) ==
    IF ch.kind = "fixed" THEN ch.value
    ELSE MathRound((IF ch.applyOn = "subtotal" THEN subtotal
                    ELSE subtotal - totalItemDiscount - globalDiscountAbs)
                   * ch.value, 100)

CallerThenPreset ==
    SelectSeq(payload.taxes, LAMBDA t : t.enabled)
        \o taxPresets[config.taxPreset]

\* C12: with config.taxPreset naming a known preset the effective tax list
\* is the caller's enabled rules in the given order followed by the rules
\* of the preset in preset order; result.taxes lists exactly these rules in
\* that order and a compound rule compounds on the rules before it in that
\* order.
C12_PresetAppended ==
    (Done /\ config.taxPreset \in DOMAIN taxPresets) =>
        /\ Len(result[1].taxes) = Len(CallerThenPreset)
        /\ \A k \in Indices(CallerThenPreset) :
              /\ result[1].taxes[k].name = CallerThenPreset[k].name
              /\ result[1].taxes[k].rate = CallerThenPreset[k].rate
              /\ result[1].taxes[k].inclusive = CallerThenPreset[k].inclusive
              /\ result[1].taxes[k].formula.effectiveBase =
                    SelectedBase(CallerThenPreset[k])
                    + (IF CallerThenPreset[k].compound THEN PriorTax(k) ELSE 0)

C12_Witness ==
    /\ Done
    /\ config.taxPreset = "canada"
    /\ Len(payload.taxes) = 3
    /\ Len(result[1].taxes) = 4
    /\ result[1].taxes[2].name = "Tax2"
    /\ result[1].taxes[2].formula.effectiveBase = Amt(110)
    /\ result[1].taxes[3].name = "GST"
    /\ result[1].taxes[4].name = "PST"

\* the items priced in another currency that has a configured rate
Foreign(it) ==
    /\ it.currency # ""
    /\ it.currency # config.currency
    /\ \E k \in Indices(config.exchangeRates) :
          config.exchangeRates[k].code = it.currency
RateIndex(code) ==
    CHOOSE k \in Indices(config.exchangeRates) :
        config.exchangeRates[k].code = code

\* qty * unitPrice of item `it` in the bill's currency
Normalized(it) ==
    IF Foreign(it)
    THEN MathRound(it.qty * it.unitPrice
                       * config.exchangeRates[RateIndex(it.currency)].d,
                   config.exchangeRates[RateIndex(it.currency)].n)
    ELSE it.qty * it.unitPrice

\* a bill of one item of quantity 1 priced in a foreign currency, without
\* discounts, charges or taxes
OneForeignItem ==
    /\ Len(payload.items) = 1
    /\ Foreign(payload.items[1])
    /\ payload.items[1].qty = 1
    /\ payload.items[1].discount = NoDiscount
    /\ config.globalDiscount = NoDiscount
    /\ payload.charges = << >>
    /\ taxes = << >>

DisplayUnit == Pow10(ScaleDigits - dp)
Distance(a, b) == IF a < b THEN b - a ELSE a - b

\* the unit price of a foreign item is divided by its rate before the
\* items are summed, and convertedTotals[code] is total * rate[code]
ConversionRules ==
    /\ subtotal = SumSeq([i \in Indices(payload.items) |->
                            Normalized(payload.items[i])])
    /\ Len(result[1].convertedTotals) = Len(config.exchangeRates)
    /\ \A k \in Indices(config.exchangeRates) :
          /\ result[1].convertedTotals[k].code = config.exchangeRates[k].code
          /\ result[1].convertedTotals[k].amount =
                roundTo(result[1].total * config.exchangeRates[k].n,
                        config.exchangeRates[k].d, dp)
    /\ payload = MultiCurrency =>
          /\ result[1].total = Amt(90) + 910
          /\ result[1].convertedTotals[1].amount = Amt(100)

\* convertedTotals of the currency the only item is priced in
Reconverted ==
    result[1].convertedTotals[RateIndex(payload.items[1].currency)].amount

\* C13: a foreign item's unit price is divided by its rate before
\* aggregation and convertedTotals[code] = total * rate[code]; so a bill of
\* one item priced P in a foreign currency c, without discounts, charges or
\* taxes, reports convertedTotals[c] equal to P within display rounding.
C13_RoundTripExact ==
    Done =>
        /\ ConversionRules
        /\ OneForeignItem =>
              Distance(Reconverted, payload.items[1].unitPrice) <= DisplayUnit

\* the bill has exactly one effective tax rule, it is inclusive, and it is
\* not held back by a threshold
SingleInclusive ==
    /\ Len(taxes) = 1
    /\ taxes[1].inclusive
    /\ Entries[1].formula.text # "Below threshold"

\* C14: for a single inclusive rule at rate r on a gross base G the
\* extracted tax is G - G/(1 + r/100) at internal precision, the extracted
\* tax and the net add up to G, and the tax is not added to the bill: the
\* total is the net after discounts plus the charges, which is G when the
\* rule applies on the taxable base of a bill without charges.
C14_InclusiveRoundTrip ==
    (Done /\ SingleInclusive) =>
        LET G == SelectedBase(taxes[1])
            net == MathRound(G * RateDen, RateDen + taxes[1].rate)
            extracted == Entries[1].formula.taxAmount
        IN  /\ Entries[1].formula.effectiveBase = G
            /\ extracted + net = G
            /\ result[1].taxes[1].amount = roundTo(G - net, 1, dp)
            /\ result[1].total =
                  roundTo(netAfterGlobalDiscount + totalCharges, 1, dp)
            /\ (payload.charges = << >>
                    /\ taxes[1].applyOn \in {Undefined, "taxableBase"}) =>
                  result[1].total = roundTo(G, 1, dp)

C14_Witness ==
    /\ Done
    /\ payload = InclusiveExample
    /\ SingleInclusive
    /\ Entries[1].formula.taxAmount = Amt(10)
    /\ result[1].taxes[1].amount = Amt(10)
    /\ result[1].total = Amt(110)

\* C15: each item discount is clamped to the item's base price and the
\* global discount to the net left after the item discounts; hence for
\* every valid payload each item's net price, the taxable base and the
\* total are never negative.
C15_DiscountsClamped ==
    Done =>
        /\ \A i \in Indices(result[1].items) :
              /\ result[1].items[i].itemDiscount <= result[1].items[i].basePrice
              /\ result[1].items[i].netPrice >= 0
        /\ globalDiscountAbs <= subtotal - totalItemDiscount
        /\ netAfterGlobalDiscount >= 0
        /\ result[1].taxableBase >= 0
        /\ beforeRoundTotal >= 0
        /\ result[1].total >= 0

C15_Witness ==
    /\ Done
    /\ payload.items[1].discount = Fixed(Amt(20))
    /\ result[1].items[1].basePrice = Amt(10)
    /\ result[1].items[1].itemDiscount = Amt(10)
    /\ result[1].items[1].netPrice = 0
    /\ config.globalDiscount = Fixed(Amt(50))
    /\ result[1].globalDiscount = Amt(30)
    /\ result[1].taxableBase = 0
    /\ result[1].total = 0

\* C16: addItem, addGlobalDiscount, addTaxRule, usePlugin and setMeta each
\* make a new context and leave the context they were given unchanged:
\* every context made earlier keeps the items, discounts, taxes, plugins and
\* meta it had when it was made, so branches built from one base context
\* affect neither the base nor each other.
C16_ContextsImmutable ==
    [][/\ Len(bills') >= Len(bills)
       /\ \A b \in 1..Len(bills) : bills'[b] = bills[b]]_vars

\* two branches built from the same empty base
C16_Witness ==
    /\ Len(bills) = 3
    /\ bills[1] = createBill(DefaultBillConfig)
    /\ bills[2].items # << >>
    /\ bills[3].items = << >>
    /\ bills[3].discounts # << >>
    /\ bills[2].discounts = << >>

\* -------------------------------------- reading a calculateTotal outcome
Calculated == billResult # << >>
Bill == bills[billResult[1].bill]
Core == billResult[1].core
Published == billResult[1].result
ItemsSum == SumSeq(Core.itemTotals)

\* the rate a TIERED rule gives for `base`: that of the qualifying tier
\* with the highest minimum, 0 when no tier qualifies
TierRate(tiers, base) ==
    LET ok == { k \in Indices(tiers) : tiers[k].minSubtotal <= base }
    IN  IF ok = {} THEN 0
        ELSE tiers[CHOOSE k \in ok :
                      \A j \in ok : tiers[j].minSubtotal <= tiers[k].minSubtotal].rate

\* what rule d takes off `base`
RuleOn(d, base) ==
    IF d.type = "FIXED" THEN (IF d.value = << >> THEN 0 ELSE d.value[1])
    ELSE MathRound(base * (IF d.type = "TIERED" THEN TierRate(d.tiers, base)
                           ELSE IF d.value = << >> THEN 0 ELSE d.value[1]),
                   100)

\* the balance left for global discount k: the items' sum less the amounts
\* of the discounts registered before it
BalanceBefore(k) ==
    ItemsSum - SumSeq([j \in 1..(k - 1) |-> Core.discountAmounts[j]])

C18_PercentsAddUp ==
    (/\ Calculated
     /\ Bill.plugins = << >>
     /\ Bill.discounts # << >>
     /\ \A k \in Indices(Bill.discounts) :
           /\ Bill.discounts[k].type = "PERCENT"
           /\ Bill.discounts[k].value = Bill.discounts[1].value
           /\ Bill.discounts[k].value # << >>) =>
        /\ Core.discounts =
              MathRound(Len(Bill.discounts) * Bill.discounts[1].value[1] * ItemsSum,
                        100)
        /\ Bill = ManyDiscounts(10) => Published.discounts = Amt(100)

\* the amount the standard tiers 0 -> 0%, 1000 -> 5%, 2000 -> 10% give
StandardTierAmount(base) ==
    IF base >= Amt(2000) THEN MathRound(base * 10, 100)
    ELSE IF base >= Amt(1000) THEN MathRound(base * 5, 100)
    ELSE 0

\* C19: a TIERED discount selects, in whatever order the tiers are listed,
\* the tier with the highest minimum that is at most the current base and
\* applies its rate to the current base; an empty tier list gives no
\* discount.  With tiers 0 -> 0%, 1000 -> 5%, 2000 -> 10%: 999 gives 0%,
\* 1000 and 1999 give 5%, 2000 gives 10%.
C19_TieredSelection ==
    (Calculated /\ Bill.plugins = << >>) =>
      LET Tiered1 == Published.breakdown.discountBreakdown[1].amount IN
        \A k \in Indices(Bill.discounts) :
            Bill.discounts[k].type = "TIERED" =>
                /\ Bill.discounts[k].tiers = << >> => Core.discountAmounts[k] = 0
                /\ Bill.discounts[k].tiers \in TierOrders =>
                      Core.discountAmounts[k] = StandardTierAmount(BalanceBefore(k))
                /\ (Bill.discounts[k].tiers \in TierOrders /\ k = 1) =>
                      /\ ItemsSum = Amt(999) => Tiered1 = 0
                      /\ ItemsSum = Amt(1000) => Tiered1 = Amt(50)
                      /\ ItemsSum = Amt(1999) => Tiered1 = Amt(99) + 950
                      /\ ItemsSum = Amt(2000) => Tiered1 = Amt(200)

C19_Witness ==
    /\ Calculated
    /\ Len(Bill.discounts) = 1
    /\ Bill.discounts[1].tiers =
          << Tier(Amt(1000), 5), Tier(Amt(2000), 10), Tier(0, 0) >>
    /\ ItemsSum = Amt(1999)
    /\ Published.discounts = Amt(99) + 950
    /\ Published.total = Amt(1899) + 50

\* what is left of `total` after the rules `ds`, one after another, each
\* computed on the running total
RECURSIVE AfterDiscounts(_, _)
AfterDiscounts(ds, total) ==
    IF ds = << >> THEN total
    ELSE AfterDiscounts(Tail(ds), total - RuleOn(Head(ds), total))

\* (unitPrice + the totals of the add-ons + the totals of the variations)
\* * qty, each child priced the same way, less the item's own discounts
RECURSIVE Priced(_)
Priced(it) ==
    LET children == it.addons \o it.variations
    IN  AfterDiscounts(it.discounts,
            (it.unitPrice + SumSeq([k \in Indices(children) |->
                                       Priced(children[k])])) * it.qty)

ItemsArePriced ==
    /\ Len(Core.itemTotals) = Len(Bill.items)
    /\ \A i \in Indices(Bill.items) :
          /\ Core.itemTotals[i] = Priced(Bill.items[i])
          /\ Published.breakdown.items[i].total =
                Reported(Priced(Bill.items[i]), Bill.config)
          /\ Bill.items[i] = Pizza => Core.itemTotals[i] = Amt(15)
          /\ Bill.items[i] = Burger => Core.itemTotals[i] = Amt(22)
          /\ Bill.items[i] = Meal => Core.itemTotals[i] = Amt(13) + 500
          /\ Bill.items[i] = DeepItem => Core.itemTotals[i] = Amt(17)
          /\ Bill.items[i] = Combo => Core.itemTotals[i] = Amt(56) + 700

PricedSum == SumSeq([i \in Indices(Bill.items) |-> Priced(Bill.items[i])])

\* the tax the inclusive rules of the bill extract from its discounted base
ExtractedTax ==
    LET gross == PricedSum - Core.discounts
        rate == SumSeq([k \in Indices(Bill.taxes) |->
                          IF Bill.taxes[k].inclusive THEN Bill.taxes[k].rate
                          ELSE 0])
    IN  gross - MathRound(gross * RateDen, RateDen + rate)

ExclusiveTaxOfBill ==
    SumSeq([k \in Indices(Core.taxEntries) |->
               IF Core.taxEntries[k].inclusive THEN 0
               ELSE Core.taxEntries[k].amount])

\* C21: calculateTotal does not clamp discounts: an item's total is its
\* gross total less the full amounts of its own discounts, the bill's
\* discounts are the full amounts of its global discounts, and the total is
\* the items' sum less these discounts plus the exclusive tax, negative
\* when the discounts exceed what they apply to (a subtotal of 50 with a
\* fixed global discount of 100 gives discounts 100 and total -50).
C21_DiscountsNotClamped ==
    (Calculated /\ Bill.plugins = << >>) =>
        /\ \A i \in Indices(Bill.items) :
              LET it == Bill.items[i]
                  children == it.addons \o it.variations
                  gross == (it.unitPrice
                            + SumSeq([k \in Indices(children) |->
                                         Priced(children[k])])) * it.qty
              IN  (\A k \in Indices(it.discounts) : it.discounts[k].type = "FIXED")
                    => Core.itemTotals[i] =
                          gross - SumSeq([k \in Indices(it.discounts) |->
                                             it.discounts[k].value[1]])
        /\ (\A k \in Indices(Bill.discounts) : Bill.discounts[k].type = "FIXED")
              => Core.discounts = SumSeq([k \in Indices(Bill.discounts) |->
                                            Bill.discounts[k].value[1]])
        /\ Core.total = ItemsSum - Core.discounts + ExclusiveTaxOfBill
        /\ Published.total = Reported(ItemsSum - Core.discounts
                                         + ExclusiveTaxOfBill, Bill.config)
        /\ (/\ Bill.items = << SimpleItem("i1", 1, Amt(50)) >>
            /\ Bill.discounts = << FixedOff("d1", Amt(100)) >>
            /\ Bill.taxes = << >>) =>
              /\ Published.discounts = Amt(100)
              /\ Published.total = 0 - Amt(50)

C21_Witness ==
    /\ Calculated
    /\ Bill.items = << SimpleItem("i1", 1, Amt(50)) >>
    /\ Bill.discounts = << FixedOff("d1", Amt(100)) >>
    /\ Bill.taxes = << >>
    /\ Published.subtotal = Amt(50)
    /\ Published.discounts = Amt(100)
    /\ Published.total < 0

\* the context the hooks of `phase` leave, each plugin in registration
\* order on the context the plugin before it returned
HookChain(phase, start) ==
    LET after[k \in 0..Len(Bill.plugins)] ==
            IF k = 0 THEN start
            ELSE Transform(Bill.plugins[k], phase, after[k - 1])
    IN  after[Len(Bill.plugins)]

\* what the plugins of the bill add before the calculation, in
\* registration order
AddedBy(kind) ==
    SelectSeq(Bill.plugins,
              LAMBDA p : IF kind = "tax" THEN p.name = "region-vat" /\ p.rate > 0
                         ELSE p.name = "promo" /\ p.valid)
LastLoyalty ==
    CHOOSE k \in Indices(Bill.plugins) :
        /\ Bill.plugins[k].name = "loyalty"
        /\ \A j \in Indices(Bill.plugins) :
              Bill.plugins[j].name = "loyalty" => j <= k

AtRateOne ==
    calculateTotal([Bill EXCEPT !.config.exchangeRate = [n |-> 1, d |-> 1]]).result

\* b is k times a, within the rounding of both to the unit reported
WithinRounding(a, b) ==
    LET k == Bill.config.exchangeRate
        unit == IF Bill.config.roundOff
                THEN Scale \div Pow10(Bill.config.decimalPlaces) ELSE 1
        diff == k.d * b - k.n * a
    IN  /\ 2 * diff <= (k.d + k.n) * unit
        /\ 2 * diff >= 0 - (k.d + k.n) * unit

\* C24: the exchangeRate of the configuration is one multiplier applied to
\* every reported amount when it is reported: the subtotal, discounts,
\* taxes and total at rate k are k times those at rate 1 within display
\* rounding (rate 0.85 on an item of 100, a fixed discount of 10 and a 20%
\* tax gives 85, 8.5, 15.3 and 91.8).
C24_ExchangeRateMultiplies ==
    Calculated =>
        /\ WithinRounding(AtRateOne.subtotal, Published.subtotal)
        /\ WithinRounding(AtRateOne.discounts, Published.discounts)
        /\ WithinRounding(AtRateOne.taxes, Published.taxes)
        /\ WithinRounding(AtRateOne.total, Published.total)
        /\ Published.total = Reported(Core.total, Bill.config)
        /\ Bill = AllComponents =>
              /\ Published.subtotal = Amt(85)
              /\ Published.discounts = Amt(8) + 500
              /\ Published.taxes = Amt(15) + 300
              /\ Published.total = Amt(91) + 800

C24_Witness ==
    /\ Calculated
    /\ Bill = AllComponents
    /\ AtRateOne.total = Amt(108)
    /\ Published.total = Amt(91) + 800
    /\ Published.taxes = Amt(15) + 300

\* what a finished call of calculateBill leaves to its caller
Outcome == [result |-> result, error |-> error]

\* C25: calculateBill called again with the same unmodified payload gives
\* the same outcome, field by field (the generated billing id and the
\* timestamp apart, which are no part of the result here): the same
\* result, or the same error; a call reads nothing the call before left.
C25_CalculateIdempotent ==
    (pc \in {"done", "thrown"} /\ earlier # << >>) => earlier[1] = Outcome

\* a second call over two items, a rule with a threshold and a compound
\* rule
C25_Witness ==
    /\ Done
    /\ earlier # << >>
    /\ earlier[1].result = result
    /\ payload = ComplexTaxes
    /\ Len(Entries) = 2
    /\ result[1].total = Amt(288) + 750

\* the rules of the payload that are switched off
DisabledRules == { k \in Indices(payload.taxes) : ~payload.taxes[k].enabled }

\* C26: a tax rule with enabled = false is no error: the calculation
\* succeeds, the rule adds nothing to any tax amount or to the total, and
\* the tax breakdown reports it as an entry of amount 0 rather than leaving
\* it out.
C26_DisabledRuleReported ==
    /\ (DisabledRules # {} /\ ~Malformed(payload)) => pc # "thrown"
    /\ Done =>
          /\ \A k \in Indices(taxes) : taxes[k].enabled
          /\ \A k \in DisabledRules :
                \E j \in Indices(Entries) :
                    /\ Entries[j].name = payload.taxes[k].name
                    /\ Entries[j].amount = 0

\* the taxable amounts of the items that reach `threshold`, summed
ReachingItems(threshold) ==
    SumSeq([i \in Indices(payload.items) |->
               LET c == ItemCalc(payload.items[i], taxes, config)
               IN  IF c.taxableAmount >= threshold THEN c.taxableAmount ELSE 0])

\* C27: a tax rule with a threshold taxes only the items whose amount
\* reaches the threshold: for items of 50 and 200 with a 10% rule of
\* threshold 100 followed by a 5% compound rule the first tax is 20 (10% of
\* 200), the second 11 (5% of 220) and the total 281.
C27_ThresholdPerItem ==
    Done =>
        /\ \A k \in Indices(taxes) :
              (/\ taxes[k].threshold > 0
               /\ ~taxes[k].inclusive
               /\ ~taxes[k].compound
               /\ taxes[k].applyOn \in {Undefined, "taxableBase"}
               /\ config.globalDiscount.kind = "none") =>
                  Entries[k].formula.taxAmount =
                      internalRound(ReachingItems(taxes[k].threshold) * taxes[k].rate,
                                    RateDen, ip)
        /\ payload = ComplexTaxes =>
              /\ Entries[1].amount = Amt(20)
              /\ Entries[2].amount = Amt(11)
              /\ result[1].total = Amt(281)

\* the internal amounts of the exclusive entries before position k, summed
PriorExclusiveTax(k) ==
    SumSeq([j \in 1..(k - 1) |->
               IF Entries[j].inclusive THEN 0 ELSE Entries[j].formula.taxAmount])

\* C28: the accumulated tax a compound rule adds to its base is the running
\* sum of the amounts of the exclusive rules only: the amount extracted for
\* an inclusive rule earlier in the list is never added to the base of a
\* later compound rule.
C28_CompoundOnExclusiveOnly ==
    Done =>
        \A k \in Indices(Entries) :
            taxes[k].compound =>
                Entries[k].formula.effectiveBase =
                    SelectedBase(taxes[k]) + PriorExclusiveTax(k)

\* the rules that are applied per item: those on 'taxableBase'
PerItemRules ==
    { k \in Indices(taxes) : taxes[k].applyOn \in {Undefined, "taxableBase"} }

\* the item totals at internal precision, summed
ItemTotalsSum ==
    SumSeq([i \in Indices(payload.items) |->
               ItemCalc(payload.items[i], taxes, config).itemTotal])

\* C29: in an item breakdown an inclusive tax is not added on top of the
\* item's price: the total of an item taxed by inclusive rules only is its
\* net price, and on a bill without charges, global discount, thresholds
\* or compound rules, all of whose taxes apply on taxableBase, the item
\* totals sum to the bill total at internal precision.
C29_InclusiveNotOnTopOfItem ==
    Done =>
        /\ (PerItemRules # {} /\ \A k \in PerItemRules : taxes[k].inclusive) =>
              \A i \in Indices(payload.items) :
                  ItemCalc(payload.items[i], taxes, config).itemTotal =
                      ItemCalc(payload.items[i], taxes, config).netPrice
        /\ (/\ payload.charges = << >>
            /\ config.globalDiscount.kind = "none"
            /\ PerItemRules = Indices(taxes)
            /\ \A k \in Indices(taxes) :
                  taxes[k].threshold = 0 /\ ~taxes[k].compound) =>
              ItemTotalsSum = beforeRoundTotal

\* the item names a currency other than the bill's that has a rate in
\* config.exchangeRates
HasOwnRate(it) ==
    /\ it.currency # ""
    /\ it.currency # config.currency
    /\ \E k \in Indices(config.exchangeRates) :
          config.exchangeRates[k].code = it.currency

\* C30: an item's unit price is converted only when the item names a
\* currency other than config.currency and config.exchangeRates has a rate
\* for it; an item naming a foreign currency without a configured rate is
\* aggregated at its unconverted unit price without any error, and an item
\* with no currency or with the base currency is never converted.
C30_ConvertedOnlyWithRate ==
    /\ pc = "thrown" =>
          validatePayload(payload) # << >> \/ config.taxPreset # ""
    /\ pc # "nan"
    /\ pc \notin {"validate", "preset", "items", "thrown", "nan"} =>
          /\ Len(itemBreakdowns) = Len(payload.items)
          /\ \A i \in Indices(payload.items) :
                itemBreakdowns[i].basePrice =
                    Display(IF HasOwnRate(payload.items[i])
                            THEN Normalized(payload.items[i])
                            ELSE payload.items[i].qty * payload.items[i].unitPrice,
                            config)

====
